---- MODULE Spec2Model ----
(***************************************************************************)
(* A model of src/main.py, the command-line complexity reporter: argument  *)
(* parsing, threshold validation, the cyclomatic-complexity stage with its *)
(* optional import stripping, the reporter, the raw-metrics stage and the  *)
(* final "no results" notice.  A source text is a sequence of lines; the   *)
(* parser, the unparser and the two analyzers are operators over lines.    *)
(***************************************************************************)
EXTENDS Integers, Sequences, FiniteSets

\* ------------------------------------------------------------------ bounds

\* Top-level fragments (statements or comment lines) in a source file.
MaxStmts == 3

\* Thresholds given on the command line range over -ThresholdSpan..ThresholdSpan.
ThresholdSpan == 1

\* Complexities of a function range over 1..MaxCx, so threshold+1 always occurs.
MaxCx == ThresholdSpan + 1

\* Default of --threshold.
DefaultThreshold == 10

\* ------------------------------------------------------------ source lines

Line(t, name, cx) == [t |-> t, name |-> name, cx |-> cx]

CommentLine == Line("comment", "", 0)    \* a comment-only line
BlankLine == Line("blank", "", 0)        \* an empty line
ImportLine == Line("import", "", 0)      \* import X
FromLine == Line("from", "", 0)          \* from X import Y
IfLine == Line("if", "", 0)              \* if cond:
DefLine(name, cx) == Line("def", name, cx) \* def name(...): body of complexity cx
NestedImport == Line("nimport", "", 0)   \* an indented import
StmtLine == Line("stmt", "", 0)          \* an indented simple statement
BadLine == Line("bad", "", 0)            \* a line that is not valid Python

Skipped == {"comment", "blank"}
Indented == {"nimport", "stmt"}
Headers == {"if", "def"}

\* The pieces a source file is written from: a comment, the two import forms,
\* an invalid line, a branch holding an import, a function f of each
\* complexity, and a function g that holds an import.
Fragments ==
    {<<CommentLine>>, <<ImportLine>>, <<FromLine>>, <<BadLine>>,
     <<IfLine, NestedImport>>, <<DefLine("g", 1), NestedImport, StmtLine>>}
    \cup {<<DefLine("f", c), StmtLine>> : c \in 1..MaxCx}

RECURSIVE TextsOfLen(_)
TextsOfLen(k) ==
    IF k = 0 THEN {<<>>}
    ELSE {t \o f : t \in TextsOfLen(k - 1), f \in Fragments}

Sources == UNION {TextsOfLen(k) : k \in 0..MaxStmts}

\* ------------------------------------------------------------- ast.parse

Node(kind, name, cx, body, lineno, end_lineno) ==
    [kind |-> kind, name |-> name, cx |-> cx, body |-> body,
     lineno |-> lineno, end_lineno |-> end_lineno]

\* The last line of the indented block that follows the header at line i,
\* or 0 when no indented block follows.
BlockEnd(lines, i) ==
    LET ends == {j \in (i + 1)..Len(lines) :
                    /\ lines[j].t \in Indented
                    /\ \A k \in (i + 1)..j : lines[k].t \in Indented \cup Skipped}
    IN IF ends = {} THEN 0 ELSE CHOOSE j \in ends : \A k \in ends : k <= j

BlockBody(lines, i, j) ==
    LET stmts == SelectSeq(SubSeq(lines, i + 1, j), LAMBDA l : l.t \in Indented)
    IN [k \in 1..Len(stmts) |-> IF stmts[k].t = "nimport" THEN "Import" ELSE "Expr"]

\* ast.parse from line i on: ok is FALSE when a SyntaxError is raised.
RECURSIVE ParseFrom(_, _)
ParseFrom(lines, i) ==
    IF i > Len(lines) THEN [ok |-> TRUE, body |-> <<>>]
    ELSE LET l == lines[i] IN
        IF l.t \in Skipped THEN ParseFrom(lines, i + 1)
        ELSE IF l.t \in {"import", "from"} THEN
            LET rest == ParseFrom(lines, i + 1)
                kind == IF l.t = "import" THEN "Import" ELSE "ImportFrom"
            IN [ok |-> rest.ok,
                body |-> <<Node(kind, "", 0, <<>>, i, i)>> \o rest.body]
        ELSE IF l.t \in Headers THEN
            LET j == BlockEnd(lines, i) IN
            IF j = 0 THEN [ok |-> FALSE, body |-> <<>>]
            ELSE LET rest == ParseFrom(lines, j + 1)
                     kind == IF l.t = "def" THEN "FunctionDef" ELSE "If"
                 IN [ok |-> rest.ok,
                     body |-> <<Node(kind, l.name, l.cx, BlockBody(lines, i, j), i, j)>>
                              \o rest.body]
        ELSE [ok |-> FALSE, body |-> <<>>]

Parse(lines) ==
    LET p == ParseFrom(lines, 1)
    IN IF p.ok THEN p ELSE [ok |-> FALSE, body |-> <<>>]

\* ------------------------------------------------------------ ast.unparse

UnparseBody(body) ==
    [k \in 1..Len(body) |-> IF body[k] = "Import" THEN NestedImport ELSE StmtLine]

\* One statement rendered; a function definition is preceded by an empty line
\* unless it opens the output.
UnparseNode(n, first) ==
    IF n.kind = "Import" THEN <<ImportLine>>
    ELSE IF n.kind = "ImportFrom" THEN <<FromLine>>
    ELSE IF n.kind = "If" THEN <<IfLine>> \o UnparseBody(n.body)
    ELSE (IF first THEN <<>> ELSE <<BlankLine>>)
         \o <<DefLine(n.name, n.cx)>> \o UnparseBody(n.body)

RECURSIVE UnparseFrom(_, _)
UnparseFrom(body, k) ==
    IF k > Len(body) THEN <<>>
    ELSE UnparseNode(body[k], k = 1) \o UnparseFrom(body, k + 1)

Unparse(body) == UnparseFrom(body, 1)

\* ----------------------------------------------------- radon (cc, raw)

ImportKinds == {"Import", "ImportFrom"}

Block(n) ==
    [name |-> n.name, complexity |-> n.cx, lineno |-> n.lineno,
     endline |-> n.end_lineno]

\* cc.cc_visit(code): one block per function definition, with the line numbers
\* of the text it is given; a SyntaxError when the text does not parse.
CcVisit(code) ==
    LET p == Parse(code)
        defs == SelectSeq(p.body, LAMBDA n : n.kind = "FunctionDef")
    IN IF p.ok
       THEN [exc |-> "none", blocks |-> [k \in 1..Len(defs) |-> Block(defs[k])]]
       ELSE [exc |-> "SyntaxError", blocks |-> <<>>]

CountLines(code, kinds) == Cardinality({i \in DOMAIN code : code[i].t \in kinds})

Metric(metric, value) == [metric |-> metric, value |-> value]

\* raw.analyze(code) as the dictionary built from it, in insertion order.
RawAnalyze(code) ==
    LET blank == CountLines(code, {"blank"})
        comments == CountLines(code, {"comment"})
        sloc == Len(code) - blank - comments
    IN <<Metric("sloc", sloc), Metric("lloc", sloc), Metric("comments", comments),
         Metric("multi", 0), Metric("blank", blank),
         Metric("single_comments", comments)>>

\* ------------------------------------------------------------ the program

FilePath == "target.py"

\* with open(filepath, "r", encoding="utf-8") as f: code = f.read()
OpenRead(file) ==
    IF file.state = "present" THEN [exc |-> "none", code |-> file.text]
    ELSE IF file.state = "missing"
    THEN [exc |-> "FileNotFoundError", code |-> <<>>]
    ELSE [exc |-> "PermissionError", code |-> <<>>]

\* Mutation: only the "import X" form is taken for an import.
IsPlainImport(n) == n.kind = "Import"

IsImportNode(n) == n.kind \in ImportKinds

\* new_body: the nodes of tree.body that are no Import and no ImportFrom.
StripImports(body) == SelectSeq(body, LAMBDA n : ~IsImportNode(n))

\* The text handed to cc_visit.
PrepareCode(code, include_imports) ==
    IF include_imports THEN [exc |-> "none", code |-> code]
    ELSE LET tree == Parse(code)
         IN IF tree.ok
            THEN [exc |-> "none", code |-> Unparse(StripImports(tree.body))]
            ELSE [exc |-> "SyntaxError", code |-> <<>>]

\* Mutation: only the FileNotFoundError clause is present.
CcHandlerFileOnly(exc) ==
    IF exc = "FileNotFoundError" THEN [caught |-> TRUE, msg |-> "File not found"]
    ELSE [caught |-> FALSE, msg |-> ""]

\* The except clauses of calculate_cyclomatic_complexity.
CcHandler(exc) ==
    IF exc = "FileNotFoundError" THEN [caught |-> TRUE, msg |-> "File not found"]
    ELSE IF exc = "SyntaxError" THEN [caught |-> TRUE, msg |-> "Syntax error"]
    ELSE [caught |-> TRUE, msg |-> "An unexpected error occurred"]

CalculateCyclomaticComplexity(file, include_imports) ==
    LET rd == OpenRead(file)
        prep == IF rd.exc = "none" THEN PrepareCode(rd.code, include_imports)
                ELSE [exc |-> rd.exc, code |-> <<>>]
        vis == IF prep.exc = "none" THEN CcVisit(prep.code)
               ELSE [exc |-> prep.exc, blocks |-> <<>>]
        h == CcHandler(vis.exc)
    IN [results |-> IF vis.exc = "none" THEN vis.blocks ELSE <<>>,
        analyzed |-> IF prep.exc = "none" THEN <<prep.code>> ELSE <<>>,
        errors |-> IF vis.exc # "none" /\ h.caught THEN <<h.msg>> ELSE <<>>,
        escaped |-> vis.exc # "none" /\ ~h.caught]

\* The except clauses of calculate_raw_metrics.
RawHandler(exc) ==
    IF exc = "FileNotFoundError" THEN [caught |-> TRUE, msg |-> "File not found"]
    ELSE [caught |-> TRUE, msg |-> "An unexpected error occurred"]

\* Mutation: the raw stage analyzes the import-stripped text, as the
\* complexity stage does by default.
CalculateRawMetricsStripped(file) ==
    LET rd == OpenRead(file)
        prep == IF rd.exc = "none" THEN PrepareCode(rd.code, FALSE)
                ELSE [exc |-> rd.exc, code |-> <<>>]
        exc == IF prep.exc # "none" THEN prep.exc
               ELSE IF file.rawRaises THEN "TokenError" ELSE "none"
        h == RawHandler(exc)
    IN [results |-> IF exc = "none" THEN RawAnalyze(prep.code) ELSE <<>>,
        analyzed |-> IF prep.exc = "none" THEN <<prep.code>> ELSE <<>>,
        errors |-> IF exc # "none" /\ h.caught THEN <<h.msg>> ELSE <<>>,
        escaped |-> exc # "none" /\ ~h.caught]

CalculateRawMetrics(file) ==
    LET rd == OpenRead(file)
        exc == IF rd.exc # "none" THEN rd.exc
               ELSE IF file.rawRaises THEN "TokenError" ELSE "none"
        h == RawHandler(exc)
    IN [results |-> IF exc = "none" THEN RawAnalyze(rd.code) ELSE <<>>,
        analyzed |-> IF rd.exc = "none" THEN <<rd.code>> ELSE <<>>,
        errors |-> IF exc # "none" /\ h.caught THEN <<h.msg>> ELSE <<>>,
        escaped |-> exc # "none" /\ ~h.caught]

\* Mutation: zero passes the check.
ThresholdNegative(threshold) == threshold < 0

\* if args.threshold <= 0
ThresholdInvalid(threshold) == threshold <= 0

\* Mutation: an entry at the threshold is flagged too.
WarnsAtThreshold(complexity, threshold) == complexity >= threshold

\* if complexity > args.threshold
Warns(complexity, threshold) == complexity > threshold

\* Mutation: the notice ignores --report-raw.
NoResultsIgnoringRaw(results, report_raw) == results = <<>>

\* if not complexity_results and not args.report_raw
NoResults(results, report_raw) == results = <<>> /\ ~report_raw

\* if args.report_raw
RunsRaw(a) == a.report_raw

\* Lines on standard output.
HeaderOut == [k |-> "header", path |-> FilePath]
EntryOut(b) == [k |-> "entry", block |-> b]
WarningOut(threshold) == [k |-> "warning", threshold |-> threshold]
EndOut == [k |-> "end"]
RawHeaderOut == [k |-> "rawheader"]
MetricOut(m) == [k |-> "metric", m |-> m]

\* Mutation: the warning is printed ahead of its entry.
EntryLinesWarningFirst(b, threshold) ==
    (IF Warns(b.complexity, threshold) THEN <<WarningOut(threshold)>> ELSE <<>>)
    \o <<EntryOut(b)>>

\* One pass of the loop over complexity_results.
EntryLines(b, threshold) ==
    <<EntryOut(b)>> \o (IF Warns(b.complexity, threshold)
                        THEN <<WarningOut(threshold)>> ELSE <<>>)

RECURSIVE AllEntryLines(_, _, _)
AllEntryLines(results, k, threshold) ==
    IF k > Len(results) THEN <<>>
    ELSE EntryLines(results[k], threshold) \o AllEntryLines(results, k + 1, threshold)

ComplexitySection(results, threshold) ==
    IF results # <<>>
    THEN <<HeaderOut>> \o AllEntryLines(results, 1, threshold) \o <<EndOut>>
    ELSE <<>>

RawSection(metrics) ==
    IF metrics # <<>>
    THEN <<RawHeaderOut>> \o [k \in 1..Len(metrics) |-> MetricOut(metrics[k])]
         \o <<EndOut>>
    ELSE <<>>

\* Mutation: the time of logging is written into the message itself.
LogRecordStamped(t, level, msg) ==
    [time |-> t, level |-> level, msg |-> <<msg, t>>]

\* '%(asctime)s - %(levelname)s - %(message)s'
LogRecord(t, level, msg) == [time |-> t, level |-> level, msg |-> msg]

RECURSIVE LogAll(_, _, _)
LogAll(t, level, msgs) ==
    IF msgs = <<>> THEN <<>>
    ELSE <<LogRecord(t, level, Head(msgs))>> \o LogAll(t, level, Tail(msgs))

\* ------------------------------------------------------------------ state

VARIABLES
    argv,                \* the command line of every run
    fs,                  \* the target path: its state, its text, the tokenizer's verdict
    clock,               \* wall-clock time, read by the log formatter
    run,                 \* which invocation this is
    pc,                  \* position in main
    args,                \* the parsed arguments
    complexity_results,
    raw_metrics,
    stdout,              \* lines printed by this run
    log,                 \* records logged by this run
    exit_code,           \* -1 while the process runs
    reads,               \* the stages that opened the file in this run
    ccInputs,            \* texts handed to cc_visit in this run
    rawInputs,           \* texts handed to raw.analyze in this run
    prev                 \* what the previous run emitted

vars == <<argv, fs, clock, run, pc, args, complexity_results, raw_metrics, stdout,
          log, exit_code, reads, ccInputs, rawInputs, prev>>

Thresholds == {<<>>} \cup {<<t>> : t \in (0 - ThresholdSpan)..ThresholdSpan}

NoArgs ==
    [parsed |-> FALSE, threshold |-> 0, report_raw |-> FALSE,
     include_imports |-> FALSE]

\* The tokenizer of raw.analyze may or may not raise on a text that does not
\* parse; it accepts every text that does.
Files ==
    {[state |-> "present", text |-> t, rawRaises |-> FALSE] : t \in Sources}
    \cup {[state |-> "present", text |-> t, rawRaises |-> TRUE] :
            t \in {u \in Sources : ~Parse(u).ok}}
    \cup {[state |-> s, text |-> <<>>, rawRaises |-> FALSE] :
            s \in {"missing", "unreadable"}}

Init ==
    /\ argv \in [threshold : Thresholds, report_raw : BOOLEAN,
                 include_imports : BOOLEAN]
    /\ fs \in Files
    /\ clock = 0
    /\ run = 1
    /\ pc = "start"
    /\ args = NoArgs
    /\ complexity_results = <<>>
    /\ raw_metrics = <<>>
    /\ stdout = <<>>
    /\ log = <<>>
    /\ exit_code = -1
    /\ reads = <<>>
    /\ ccInputs = <<>>
    /\ rawInputs = <<>>
    /\ prev = [stdout |-> <<>>, log |-> <<>>, exit_code |-> -1]

\* args = setup_argparse()
SetupArgparse ==
    /\ pc = "start"
    /\ args' = [parsed |-> TRUE,
                threshold |-> IF argv.threshold = <<>> THEN DefaultThreshold
                              ELSE argv.threshold[1],
                report_raw |-> argv.report_raw,
                include_imports |-> argv.include_imports]
    /\ pc' = "validate"
    /\ clock' = clock + 1
    /\ UNCHANGED <<argv, fs, run, complexity_results, raw_metrics, stdout, log,
                   exit_code, reads, ccInputs, rawInputs, prev>>

\* The threshold check fails: logging.error(...); sys.exit(1)
RejectThreshold ==
    /\ pc = "validate"
    /\ ThresholdInvalid(args.threshold)
    /\ log' = log \o <<LogRecord(clock, "ERROR",
                                 "Complexity threshold must be a positive integer.")>>
    /\ exit_code' = 1
    /\ pc' = "done"
    /\ clock' = clock + 1
    /\ UNCHANGED <<argv, fs, run, args, complexity_results, raw_metrics, stdout,
                   reads, ccInputs, rawInputs, prev>>

\* complexity_results = calculate_cyclomatic_complexity(...)
ComplexityStage ==
    /\ pc = "validate"
    /\ ~ThresholdInvalid(args.threshold)
    /\ LET r == CalculateCyclomaticComplexity(fs, args.include_imports) IN
        /\ complexity_results' = r.results
        /\ ccInputs' = ccInputs \o r.analyzed
        /\ log' = log \o LogAll(clock, "ERROR", r.errors)
        /\ pc' = IF r.escaped THEN "done" ELSE "report"
        /\ exit_code' = IF r.escaped THEN 1 ELSE exit_code
    /\ reads' = Append(reads, "complexity")
    /\ clock' = clock + 1
    /\ UNCHANGED <<argv, fs, run, args, raw_metrics, stdout, rawInputs, prev>>

\* if complexity_results: print the header, the entries, the warnings
ReportComplexity ==
    /\ pc = "report"
    /\ stdout' = stdout \o ComplexitySection(complexity_results, args.threshold)
    /\ pc' = "raw"
    /\ clock' = clock + 1
    /\ UNCHANGED <<argv, fs, run, args, complexity_results, raw_metrics, log,
                   exit_code, reads, ccInputs, rawInputs, prev>>

\* if args.report_raw: raw_metrics = calculate_raw_metrics(...); print them
RawStage ==
    /\ pc = "raw"
    /\ RunsRaw(args)
    /\ LET r == CalculateRawMetrics(fs) IN
        /\ raw_metrics' = r.results
        /\ rawInputs' = rawInputs \o r.analyzed
        /\ log' = log \o LogAll(clock, "ERROR", r.errors)
        /\ stdout' = IF r.escaped THEN stdout ELSE stdout \o RawSection(r.results)
        /\ pc' = IF r.escaped THEN "done" ELSE "final"
        /\ exit_code' = IF r.escaped THEN 1 ELSE exit_code
    /\ reads' = Append(reads, "raw")
    /\ clock' = clock + 1
    /\ UNCHANGED <<argv, fs, run, args, complexity_results, ccInputs, prev>>

SkipRaw ==
    /\ pc = "raw"
    /\ ~RunsRaw(args)
    /\ pc' = "final"
    /\ clock' = clock + 1
    /\ UNCHANGED <<argv, fs, run, args, complexity_results, raw_metrics, stdout, log,
                   exit_code, reads, ccInputs, rawInputs, prev>>

\* The closing notice, then main returns and the process exits with 0.
Finish ==
    /\ pc = "final"
    /\ log' = IF NoResults(complexity_results, args.report_raw)
              THEN Append(log, LogRecord(clock, "INFO", "No results to display."))
              ELSE log
    /\ exit_code' = 0
    /\ pc' = "done"
    /\ clock' = clock + 1
    /\ UNCHANGED <<argv, fs, run, args, complexity_results, raw_metrics, stdout,
                   reads, ccInputs, rawInputs, prev>>

\* The same command line is run again on the unchanged file.
Rerun ==
    /\ pc = "done"
    /\ run = 1
    /\ prev' = [stdout |-> stdout, log |-> log, exit_code |-> exit_code]
    /\ run' = run + 1
    /\ pc' = "start"
    /\ args' = NoArgs
    /\ complexity_results' = <<>>
    /\ raw_metrics' = <<>>
    /\ stdout' = <<>>
    /\ log' = <<>>
    /\ exit_code' = -1
    /\ reads' = <<>>
    /\ ccInputs' = <<>>
    /\ rawInputs' = <<>>
    /\ clock' = clock + 1
    /\ UNCHANGED <<argv, fs>>

Next ==
    \/ SetupArgparse
    \/ RejectThreshold
    \/ ComplexityStage
    \/ ReportComplexity
    \/ RawStage
    \/ SkipRaw
    \/ Finish
    \/ Rerun

Spec == Init /\ [][Next]_vars

\* ----------------------------------------------------------- properties

Messages(l) == [i \in 1..Len(l) |-> l[i].msg]
Levels(l) == [i \in 1..Len(l) |-> l[i].level]
ErrorCount(l) == Cardinality({i \in DOMAIN l : l[i].level = "ERROR"})
Logged(msg) == \E i \in DOMAIN log : log[i].msg = msg
Positions(out, kinds) == {i \in DOMAIN out : out[i].k \in kinds}
Truth(b) == IF b THEN 1 ELSE 0

Accepted == args.parsed /\ args.threshold > 0
AfterComplexity == pc \in {"report", "raw", "final", "done"}
AfterReport == pc \in {"raw", "final", "done"}
AfterRaw == pc \in {"final", "done"}

\* What the environment makes of each stage, read off the file alone.
ValidSource == fs.state = "present" /\ Parse(fs.text).ok
CcFails == ~ValidSource
RawFails == fs.state # "present" \/ fs.rawRaises
TopLevelKinds == {Parse(fs.text).body[i].kind : i \in DOMAIN Parse(fs.text).body}

\* C1: whenever the parsed threshold is <= 0 the run logs one error and exits
\* with code 1 without reading the file, calling an analyzer or printing.
C1_NonPositiveThresholdExits ==
    (args.parsed /\ args.threshold <= 0) =>
        /\ pc \in {"validate", "done"}
        /\ reads = <<>> /\ ccInputs = <<>> /\ rawInputs = <<>>
        /\ stdout = <<>>
        /\ complexity_results = <<>> /\ raw_metrics = <<>>
        /\ pc = "validate" => log = <<>> /\ exit_code = -1
        /\ pc = "done" =>
            /\ exit_code = 1
            /\ Levels(log) = <<"ERROR">>
            /\ Messages(log) = <<"Complexity threshold must be a positive integer.">>

\* A rejected run on a file whose analysis would have printed a section.
C1_Witness ==
    /\ pc = "done" /\ args.parsed /\ args.threshold <= 0
    /\ argv.report_raw
    /\ ValidSource /\ "FunctionDef" \in TopLevelKinds

\* C2: with a positive threshold a failing stage logs exactly one error and
\* yields an empty result, the next stage still runs, and the exit code is 0.
C2_StageFailuresAreContained ==
    (Accepted /\ AfterComplexity) =>
        LET ccFails == CcFails IN
        /\ ccFails => complexity_results = <<>>
        /\ ~AfterRaw => ErrorCount(log) = Truth(ccFails)
        /\ AfterRaw =>
            /\ (args.report_raw /\ RawFails) => raw_metrics = <<>>
            /\ args.report_raw => reads = <<"complexity", "raw">>
            /\ ErrorCount(log) = Truth(ccFails) + Truth(args.report_raw /\ RawFails)
        /\ pc = "done" => exit_code = 0

\* The complexity stage fails on a syntax error and the raw stage still reports.
C2_Witness ==
    /\ pc = "done" /\ Accepted
    /\ fs.state = "present" /\ CcFails
    /\ args.report_raw /\ ~RawFails /\ raw_metrics # <<>>
    /\ Messages(log) = <<"Syntax error">>

\* C3: an entry line is followed by a warning line exactly when its complexity
\* is strictly greater than the threshold, so the warnings number the entries
\* above the threshold.
C3_WarningIffAboveThreshold ==
    (Accepted /\ AfterReport) =>
        /\ \A i \in Positions(stdout, {"entry"}) :
            (i < Len(stdout) /\ stdout[i + 1].k = "warning")
                <=> stdout[i].block.complexity > args.threshold
        /\ Cardinality(Positions(stdout, {"warning"}))
            = Cardinality({i \in DOMAIN complexity_results :
                              complexity_results[i].complexity > args.threshold})

\* One entry at the threshold and one just above it.
C3_Witness ==
    /\ pc = "done" /\ Accepted
    /\ \E i \in DOMAIN complexity_results :
        complexity_results[i].complexity = args.threshold
    /\ \E i \in DOMAIN complexity_results :
        complexity_results[i].complexity = args.threshold + 1
    /\ Cardinality(Positions(stdout, {"warning"})) = 1

Shape(n) == [kind |-> n.kind, name |-> n.name, cx |-> n.cx, body |-> n.body]
Shapes(body) == [i \in 1..Len(body) |-> Shape(body[i])]

\* C4: on valid source the analyzer gets the file text itself when imports are
\* included; otherwise it gets a text whose top-level statements are the
\* original ones without the imports, in order, nested imports untouched.
C4_ImportStripping ==
    (Accepted /\ AfterComplexity /\ ValidSource) =>
        /\ Len(ccInputs) = 1
        /\ args.include_imports => ccInputs[1] = fs.text
        /\ ~args.include_imports =>
            LET analyzed == Parse(ccInputs[1])
                orig == Shapes(Parse(fs.text).body)
                got == Shapes(analyzed.body)
                keep == {i \in DOMAIN orig : orig[i].kind \notin ImportKinds}
            IN /\ analyzed.ok
               /\ Len(got) = Cardinality(keep)
               /\ \A i \in keep :
                    got[Cardinality({j \in keep : j <= i})] = orig[i]

\* Imports are removed around two statements that both hold a nested import.
C4_Witness ==
    /\ AfterComplexity /\ Accepted /\ ValidSource /\ ~args.include_imports
    /\ TopLevelKinds = {"ImportFrom", "FunctionDef", "If"}
    /\ Len(Parse(ccInputs[1]).body) = 2
    /\ \A i \in 1..2 : Parse(ccInputs[1]).body[i].body[1] = "Import"

\* C5: on valid source without top-level imports the complexity results are
\* the same with and without --include-imports.
C5_SameResultsWithoutImports ==
    (Accepted /\ AfterComplexity /\ ValidSource /\ TopLevelKinds \cap ImportKinds = {}) =>
        complexity_results
            = CalculateCyclomaticComplexity(fs, ~args.include_imports).results

\* C6: a run with a positive threshold that prints nothing logs
\* "No results to display.".
C6_SilenceIsReported ==
    (pc = "done" /\ Accepted /\ stdout = <<>>) => Logged("No results to display.")

\* C7: the notice is logged (once, last) exactly when the complexity list is
\* empty and --report-raw is absent; for a missing path without --report-raw
\* the log is the File not found error, then the notice, and nothing is printed.
C7_NoResultsNotice ==
    (pc = "done" /\ Accepted) =>
        /\ Logged("No results to display.")
            <=> (complexity_results = <<>> /\ ~args.report_raw)
        /\ \A i \in DOMAIN log :
            log[i].msg = "No results to display."
                => (i = Len(log) /\ log[i].level = "INFO")
        /\ (fs.state = "missing" /\ ~args.report_raw) =>
            /\ Messages(log) = <<"File not found", "No results to display.">>
            /\ Levels(log) = <<"ERROR", "INFO">>
            /\ stdout = <<>>

C7_Witness ==
    /\ pc = "done" /\ Accepted /\ fs.state = "missing" /\ ~args.report_raw
    /\ Len(log) = 2

\* The raw-metrics result the file alone determines.
ExpectedRaw == IF RawFails THEN <<>> ELSE RawAnalyze(fs.text)

\* C8: the raw stage opens the file exactly when --report-raw is set, analyzes
\* the file text as it is, and its result and its printed section are fixed
\* by the file alone.
C8_RawStageIndependent ==
    (Accepted /\ AfterRaw) =>
        LET section == ComplexitySection(complexity_results, args.threshold) IN
        /\ (\E i \in DOMAIN reads : reads[i] = "raw") <=> args.report_raw
        /\ rawInputs = IF args.report_raw /\ fs.state = "present"
                       THEN <<fs.text>> ELSE <<>>
        /\ raw_metrics = IF args.report_raw THEN ExpectedRaw ELSE <<>>
        /\ SubSeq(stdout, Len(section) + 1, Len(stdout))
            = IF args.report_raw THEN RawSection(ExpectedRaw) ELSE <<>>

\* Raw metrics are reported for the whole file while the complexity stage
\* analyzed a stripped text.
C8_Witness ==
    /\ pc = "done" /\ Accepted /\ args.report_raw /\ ~args.include_imports
    /\ ValidSource /\ "Import" \in TopLevelKinds
    /\ ccInputs # rawInputs
    /\ raw_metrics # <<>>

ComplexityKinds == {"header", "entry", "warning"}
RawKinds == {"rawheader", "metric"}
EntryBlocks(out) ==
    LET es == SelectSeq(out, LAMBDA o : o.k = "entry")
    IN [i \in 1..Len(es) |-> es[i].block]

\* C10: the header is printed exactly when there are results and comes first;
\* the entries follow in the analyzer's order; a warning comes right after its
\* entry; the raw section is printed exactly when --report-raw is set and the
\* metrics are non-empty, after the whole complexity section.
C10_OutputOrder ==
    (Accepted /\ AfterReport) =>
        /\ Positions(stdout, {"header"})
            = IF complexity_results # <<>> THEN {1} ELSE {}
        /\ EntryBlocks(stdout) = complexity_results
        /\ \A i \in Positions(stdout, {"warning"}) :
            /\ i > 1
            /\ stdout[i - 1].k = "entry"
            /\ stdout[i - 1].block.complexity > stdout[i].threshold
        /\ ~AfterRaw => Positions(stdout, RawKinds) = {}
        /\ AfterRaw =>
            /\ Positions(stdout, {"rawheader"}) # {}
                <=> (args.report_raw /\ raw_metrics # <<>>)
            /\ \A i \in Positions(stdout, RawKinds) :
                \A j \in Positions(stdout, ComplexityKinds) : j < i
            /\ \A i \in Positions(stdout, {"metric"}) :
                \E h \in Positions(stdout, {"rawheader"}) : h < i

\* Two entries, a warning and a raw section in one run.
C10_Witness ==
    /\ pc = "done" /\ Accepted
    /\ Len(complexity_results) >= 2
    /\ Positions(stdout, {"warning"}) # {}
    /\ Positions(stdout, {"rawheader"}) # {}

====
